---- MODULE Spec2Model ----
(***************************************************************************)
(* Session orchestration of src/pages/Home.tsx: the chat handlers          *)
(* (sendChatMessage, deleteSelectedEmails), the selection handlers          *)
(* (toggleEmailSelection, selectAllEmails), the periodic handlers           *)
(* (runCleanupNow, testRunCleanup), the activity log (addActivityLog,       *)
(* loadActivityLog, saveActivityLog) and the settings (loadSettings,        *)
(* setSettings, saveSettings).                                              *)
(*                                                                         *)
(* A handler is an async function: the part before its await runs in the   *)
(* event that invokes it, the part after the await runs when the gateway   *)
(* call settles.  The continuation reads the component state through the   *)
(* closure of the render in which the handler was invoked (activityLog,    *)
(* selectedEmails), except where it uses a functional update               *)
(* (setChatMessages(prev => ..), setEmailPreviews(prev => ..)).  A request  *)
(* in flight therefore carries the values its closure captured.            *)
(*                                                                         *)
(* Texts are sequences of tokens (a token is a character or a whole        *)
(* literal), so that trim() is computed and not assumed.                   *)
(***************************************************************************)
EXTENDS Integers, Sequences, FiniteSets, TLC

VARIABLES
  now,             \* the wall clock read by Date.now()
  activityLog,     \* useState<ActivityLog[]>
  lsActivityLog,   \* localStorage item 'gmail_activity_log'
  chatMessages,    \* useState<ChatMessage[]>
  chatInput,       \* useState('')
  chatLoading,     \* useState(false): the chat gate
  emailPreviews,   \* useState<EmailPreview[]>: the preview batch (ids)
  selectedEmails,  \* useState<Set<string>>
  chatError,       \* useState<string | null>
  periodicLoading, \* useState(false): the periodic gate
  periodicError,   \* useState<string | null>
  settings,        \* useState<CleanupSettings>(loadSettings()): the draft
  lsSettings,      \* localStorage item 'gmail_cleanup_settings'
  settingsSaved,   \* useState(false): the "saved" confirmation
  chatReqs,        \* calls to RANDOM_AGENT_ID awaiting their result
  perReqs,         \* calls to PERIODIC_AGENT_ID awaiting their result
  nCalls,          \* history: number of gateway calls made so far
  nAppends,        \* history: number of addActivityLog calls so far
  toggled,         \* history: the ids toggled an odd number of times
  last             \* history: the last handler event and what it saw

settingsVars == <<settings, lsSettings, settingsSaved>>

vars == <<now, activityLog, lsActivityLog, chatMessages, chatInput, chatLoading,
          emailPreviews, selectedEmails, chatError, periodicLoading,
          periodicError, settings, lsSettings, settingsSaved, chatReqs,
          perReqs, nCalls, nAppends, toggled, last>>

---------------------------------------------------------------------------
(* Bounds of the model *)

MaxClock == 1       \* the clock runs from 0 to MaxClock
MaxCalls == 2       \* gateway calls per behaviour of Spec (all responses)
DeepCalls == 3      \* gateway calls per behaviour of SpecDeep (core responses)
MaxInputLen == 1    \* length of a typed chat input
MaxBatch == 2       \* length of a preview batch in a response
MaxDeleted == 1     \* largest count a response reports
NumIds == 2         \* distinct preview ids the agent uses

(* Program constants *)

LogCap == 50

---------------------------------------------------------------------------
(* Values *)

Min(a, b) == IF a < b THEN a ELSE b

Take(s, n) == SubSeq(s, 1, Min(n, Len(s)))

SeqsUpTo(S, n) == UNION {[1..k -> S] : k \in 0..n}

Range(s) == {s[i] : i \in 1..Len(s)}

Ids == 1..NumIds

\* absent optional text of a response (undefined) and the empty error slot (null)
Undefined == <<"<undefined>">>
Null == <<"<null>">>

\* a || b on texts: undefined, null and '' are falsy
Falsy(t) == t \in {Undefined, Null, <<>>}

Or(a, b) == IF Falsy(a) THEN b ELSE a

Space == " "

Chars == {Space, "a"}

Inputs == SeqsUpTo(Chars, MaxInputLen)

\* the text of a suggestion chip
ChipText == <<"a">>

RECURSIVE TrimStart(_)
TrimStart(s) ==
  IF s # <<>> /\ Head(s) = Space THEN TrimStart(Tail(s)) ELSE s

RECURSIVE TrimEnd(_)
TrimEnd(s) ==
  IF s # <<>> /\ s[Len(s)] = Space THEN TrimEnd(SubSeq(s, 1, Len(s) - 1)) ELSE s

\* String.prototype.trim
Trim(s) == TrimEnd(TrimStart(s))

NetworkError == <<"Network error. Please try again.">>
FailedToProcess == <<"Failed to process request">>
FailedToDelete == <<"Failed to delete emails">>
CleanupFailed == <<"Cleanup failed">>
TestRunFailed == <<"Test run failed">>

AgentError == <<"E">>
AgentMessage == <<"M">>
ResultMessage == <<"R">>

---------------------------------------------------------------------------
(* Chat messages and activity-log entries *)

\* ChatMessage; id and timestamp are clock readings
Message(id, role, content) ==
  [id |-> id, role |-> role, content |-> content, timestamp |-> now]

\* ActivityLog entry built by addActivityLog; seq is a history field (the
\* number of the append that created the entry), it is not read by the program
NewLog(action, emailsDeleted, status) ==
  [id |-> now, timestamp |-> now, action |-> action,
   emailsDeleted |-> emailsDeleted, status |-> status, seq |-> nAppends + 1]

\* the entries a previous session left in the store: newest first, made at
\* earlier clock readings
OldLog(i) ==
  [id |-> 0 - i, timestamp |-> 0 - i, action |-> <<"Scheduled cleanup executed">>,
   emailsDeleted |-> 0, status |-> "success", seq |-> 0 - i]

Prefill(n) == [i \in 1..n |-> OldLog(i)]

\* the localStorage item: absent (getItem gives null), text JSON.parse
\* rejects, or the JSON of a list written by saveActivityLog
Stored(logs) == [kind |-> "list", val |-> logs]
Absent == [kind |-> "absent", val |-> <<>>]
Corrupt == [kind |-> "corrupt", val |-> <<>>]

loadActivityLog(item) ==
  CASE item.kind = "absent" -> <<>>
    [] item.kind = "corrupt" -> <<>>
    [] OTHER -> item.val

\* [newLog, ...activityLog].slice(0, 50)
UpdatedLogs(newLog, log) == Take(<<newLog>> \o log, LogCap)

---------------------------------------------------------------------------
(* Settings and their stored text *)

\* the keys of CleanupSettings, in the order of the default record
Fields ==
  <<"promotional", "oldEmails", "ageThreshold", "scheduleEnabled", "frequency",
    "scheduleTime", "requireConfirmation", "maxEmailsPerRun">>

\* the default record of loadSettings
DefaultSettings ==
  [promotional |-> TRUE, oldEmails |-> TRUE, ageThreshold |-> 30,
   scheduleEnabled |-> FALSE, frequency |-> "weekly", scheduleTime |-> "09:00",
   requireConfirmation |-> TRUE, maxEmailsPerRun |-> 100]

\* the values a key of a valid record can have: the items of the Selects,
\* the states of the Switches, times of the time input
Valid ==
  [promotional |-> BOOLEAN, oldEmails |-> BOOLEAN,
   ageThreshold |-> {7, 14, 30, 60, 90}, scheduleEnabled |-> BOOLEAN,
   frequency |-> {"daily", "weekly", "disabled"},
   scheduleTime |-> {"09:00", "18:00"}, requireConfirmation |-> BOOLEAN,
   maxEmailsPerRun |-> {50, 100, 200, 500}]

\* the values the user picks in the exploration: every state of the
\* Switches, two items of each Select, one time
Choices ==
  [Valid EXCEPT !.ageThreshold = {7, 30}, !.frequency = {"daily", "weekly"},
                !.scheduleTime = {"09:00"}, !.maxEmailsPerRun = {50, 100}]

\* the numbers a stored text can hold
Numbers == Valid.ageThreshold \cup Valid.maxEmailsPerRun

\* a settings value is a function from the keys it has to their values: a
\* complete record has all of Fields, an object read from the store may not
IsComplete(s) ==
  /\ DOMAIN s = Range(Fields)
  /\ \A f \in DOMAIN s : s[f] \in Valid[f]

\* the object s restricted to the keys of D
Restrict(s, D) == [f \in D \cap DOMAIN s |-> s[f]]

\* a JSON literal: a quoted string, true, false or a number
Literal(quoted, text) == [quoted |-> quoted, text |-> text]

\* JSON.stringify of one value of key f
StringifyValue(f, v) ==
  IF f \in {"frequency", "scheduleTime"} THEN Literal(TRUE, v)
  ELSE IF f \in {"ageThreshold", "maxEmailsPerRun"} THEN Literal(FALSE, ToString(v))
  ELSE Literal(FALSE, IF v THEN "true" ELSE "false")

\* JSON.parse of one literal, which does not know the key it belongs to
ParseLiteral(lit) ==
  IF lit.quoted THEN lit.text
  ELSE IF lit.text = "true" THEN TRUE
  ELSE IF lit.text = "false" THEN FALSE
  ELSE CHOOSE n \in Numbers : ToString(n) = lit.text

\* JSON.stringify of an object: its members in key order
Stringify(s) ==
  LET keys == SelectSeq(Fields, LAMBDA f : f \in DOMAIN s)
  IN [i \in 1..Len(keys) |-> [key |-> keys[i], lit |-> StringifyValue(keys[i], s[keys[i]])]]

\* JSON.parse of the text of an object
Parse(members) ==
  [f \in {members[i].key : i \in 1..Len(members)} |->
     ParseLiteral((CHOOSE m \in Range(members) : m.key = f).lit)]

\* the localStorage item of the settings: getItem gives null (absent), gives
\* '' (empty), gives text JSON.parse rejects (corrupt), gives the JSON text
\* of an object (object), or throws (throws).  JSON texts of other values
\* (null, numbers, arrays) are not drawn.
SettingsItem(kind, members) == [kind |-> kind, val |-> members]

StoredSettings(s) == SettingsItem("object", Stringify(s))

\* mutant of loadSettings: the store is not read
loadSettingsDefaultOnly(item) == DefaultSettings

\* loadSettings: stored ? JSON.parse(stored) : default, and the default when
\* getItem or JSON.parse throws
loadSettings(item) ==
  CASE item.kind \in {"absent", "empty"} -> DefaultSettings
    [] item.kind \in {"throws", "corrupt"} -> DefaultSettings
    [] OTHER -> Parse(item.val)

\* a record a previous session saved with every Switch and Select changed
OtherSettings ==
  [promotional |-> FALSE, oldEmails |-> FALSE, ageThreshold |-> 7,
   scheduleEnabled |-> TRUE, frequency |-> "daily", scheduleTime |-> "09:00",
   requireConfirmation |-> FALSE, maxEmailsPerRun |-> 50]

\* objects with keys missing: written by an earlier version or by hand
PartialSettings ==
  {Restrict(OtherSettings, Range(Fields) \ D) :
     D \in {Range(Fields), {"maxEmailsPerRun"}, {"oldEmails", "ageThreshold"}}}

\* the store contents a session can find
SettingsItems ==
  {SettingsItem(k, <<>>) : k \in {"absent", "empty", "corrupt", "throws"}}
    \cup {StoredSettings(s) : s \in {DefaultSettings, OtherSettings} \cup PartialSettings}

---------------------------------------------------------------------------
(* Gateway responses *)

NoResult ==
  [present |-> FALSE, message |-> Undefined, email_preview |-> <<>>,
   emails_deleted |-> 0, hasCriteria |-> FALSE, category |-> Undefined,
   total_emails_processed |-> 0, total_emails_deleted |-> 0]

\* preview batches up to renaming of ids: the ids appear in the order 1, 2, ..
\* of their first occurrence (a batch may repeat an id)
Batches ==
  {b \in SeqsUpTo(Ids, MaxBatch) :
     \A i \in 1..Len(b) : b[i] = 1 \/ \E j \in 1..(i - 1) : b[j] = b[i] - 1}

\* RandomAgentResponse.  An absent email_preview is read like an empty one and
\* an absent category like an empty one, so only the present forms are drawn;
\* criteria_identified is read only when emails_deleted > 0
ChatResults ==
  {[NoResult EXCEPT !.present = TRUE, !.message = ResultMessage,
                    !.email_preview = p, !.emails_deleted = d,
                    !.hasCriteria = c[1], !.category = c[2]] :
     p \in Batches, d \in 0..MaxDeleted,
     c \in {<<FALSE, Undefined>>, <<TRUE, <<>> >>, <<TRUE, <<"Promotions">> >>}}
  \ {r \in [present : {TRUE}, message : {ResultMessage}, email_preview : Batches,
            emails_deleted : {0}, hasCriteria : {TRUE},
            category : {<<>>, <<"Promotions">>},
            total_emails_processed : {0}, total_emails_deleted : {0}] : TRUE}

\* PeriodicResponse with its cleanup_summary
PeriodicResults ==
  {[NoResult EXCEPT !.present = TRUE, !.total_emails_processed = p,
                    !.total_emails_deleted = d] :
     p \in 0..MaxDeleted, d \in 0..MaxDeleted}

NoResp ==
  [rejected |-> FALSE, success |-> FALSE, error |-> Undefined,
   status |-> "", message |-> Undefined, result |-> NoResult]

\* the gateway call throws or rejects
Rejected == [NoResp EXCEPT !.rejected = TRUE]

\* envelopes the handlers take for a failure; their result is never read
Failures ==
  {[NoResp EXCEPT !.success = s[1], !.status = s[2], !.error = e, !.message = m] :
     s \in {<<FALSE, "success">>, <<FALSE, "error">>, <<TRUE, "error">>},
     e \in {Undefined, AgentError}, m \in {Undefined, AgentMessage}}

\* envelopes the handlers take for a success; the result may be missing
Successes(results) ==
  {[NoResp EXCEPT !.success = TRUE, !.status = "success", !.result = r] :
     r \in results \cup {NoResult}}

ChatResponses == {Rejected} \cup Failures \cup Successes(ChatResults)

PeriodicResponses == {Rejected} \cup Failures \cup Successes(PeriodicResults)

\* result.success && result.response.status === 'success'
IsSuccess(resp) == resp.success /\ resp.status = "success"

\* one response for each path through the chat handlers: the call rejects,
\* a failure envelope, a success without result, a success with previews, a
\* success with a deletion, a success with a deletion and no criteria
CoreChatResponses ==
  {r \in ChatResponses :
     \/ r.rejected
     \/ ~r.rejected /\ ~IsSuccess(r) /\ ~r.success /\ r.status = "error"
          /\ r.error = AgentError /\ r.message = Undefined
     \/ IsSuccess(r) /\ ~r.result.present
     \/ IsSuccess(r) /\ r.result.present /\ r.result.emails_deleted = 0
          /\ Len(r.result.email_preview) \in {0, MaxBatch}
          /\ Cardinality(Range(r.result.email_preview)) = Len(r.result.email_preview)
     \/ IsSuccess(r) /\ r.result.present /\ r.result.emails_deleted = 1
          /\ r.result.email_preview = <<>>
          /\ r.result.category \in {Undefined, <<"Promotions">>}}

\* one response for each path through the periodic handlers
CorePeriodicResponses ==
  {r \in PeriodicResponses :
     \/ r.rejected
     \/ ~r.rejected /\ ~IsSuccess(r) /\ ~r.success /\ r.status = "error"
          /\ r.error = AgentError /\ r.message = Undefined
     \/ IsSuccess(r) /\ ~r.result.present
     \/ IsSuccess(r) /\ r.result.present /\ r.result.total_emails_processed = 1
          /\ r.result.total_emails_deleted = 0}

---------------------------------------------------------------------------
(* Requests in flight and the history variable *)

\* what the continuation of a handler reads from its closure
Request(kind, input) ==
  [kind |-> kind, log |-> activityLog,
   sel |-> IF kind = "delete" THEN selectedEmails ELSE {}, input |-> input]

NoReq == [kind |-> "", log |-> <<>>, sel |-> {}, input |-> <<>>]

\* stored: whether localStorage.setItem of the append succeeded; sel: the
\* selection in the state in which the event happens
Event(op, req, resp, stored) ==
  [op |-> op, req |-> req, resp |-> resp, stored |-> stored, sel |-> selectedEmails]

\* the toggles counted since the selection was last emptied together with a
\* new batch or by a delete: odd holds the ids toggled an odd number of
\* times; the count is void once selectAllEmails ran or the batch was replaced
\* with the selection kept
Toggles(valid, odd) == [valid |-> valid, odd |-> odd]

NoEvent == Event("", NoReq, NoResp, TRUE)

Remove(s, i) == SubSeq(s, 1, i - 1) \o SubSeq(s, i + 1, Len(s))

---------------------------------------------------------------------------
(* Initial state: the component after mount (useState initialisers and the  *)
(* mount effect setActivityLog(loadActivityLog()))                          *)

InitWith(item) ==
  /\ now = 0
  /\ lsActivityLog = item
  /\ activityLog = loadActivityLog(lsActivityLog)
  /\ settings = loadSettings(lsSettings)
  /\ settingsSaved = FALSE
  /\ chatMessages = <<>>
  /\ chatInput = <<>>
  /\ chatLoading = FALSE
  /\ emailPreviews = <<>>
  /\ selectedEmails = {}
  /\ chatError = Null
  /\ periodicLoading = FALSE
  /\ periodicError = Null
  /\ chatReqs = <<>>
  /\ perReqs = <<>>
  /\ nCalls = 0
  /\ nAppends = 0
  /\ toggled = Toggles(TRUE, {})
  /\ last = NoEvent

\* the first session: nothing is stored yet
Init ==
  /\ lsSettings = SettingsItem("absent", <<>>)
  /\ InitWith(Absent)

\* a session that finds a full log in the store
InitFull ==
  /\ lsSettings = SettingsItem("absent", <<>>)
  /\ InitWith(Stored(Prefill(LogCap)))

\* a session that finds any of the settings items in the store
InitSettings ==
  /\ lsSettings \in SettingsItems
  /\ InitWith(Absent)

---------------------------------------------------------------------------
(* addActivityLog.  The handler that calls it was created in the render of  *)
(* the event that invoked the handler, so `log` is the activityLog of that  *)
(* render.  saveActivityLog swallows a throwing setItem (stored = FALSE).   *)

\* mutant of addActivityLog: the list is stored before it is cut to the cap
addActivityLogStoresUncut(log, action, emailsDeleted, status, stored) ==
  LET newLog == NewLog(action, emailsDeleted, status)
  IN /\ activityLog' = UpdatedLogs(newLog, log)
     /\ lsActivityLog' = IF stored THEN Stored(<<newLog>> \o log) ELSE lsActivityLog
     /\ nAppends' = nAppends + 1

\* mutant of addActivityLog: the list is stored before the state is set and
\* a throwing setItem is not caught
addActivityLogStoreFirst(log, action, emailsDeleted, status, stored) ==
  LET updatedLogs == UpdatedLogs(NewLog(action, emailsDeleted, status), log)
  IN /\ activityLog' = IF stored THEN updatedLogs ELSE activityLog
     /\ lsActivityLog' = IF stored THEN Stored(updatedLogs) ELSE lsActivityLog
     /\ nAppends' = nAppends + 1

addActivityLog(log, action, emailsDeleted, status, stored) ==
  LET updatedLogs == UpdatedLogs(NewLog(action, emailsDeleted, status), log)
  IN /\ activityLog' = updatedLogs
     /\ lsActivityLog' = IF stored THEN Stored(updatedLogs) ELSE lsActivityLog
     /\ nAppends' = nAppends + 1

NoActivityLog == UNCHANGED <<activityLog, lsActivityLog, nAppends>>

---------------------------------------------------------------------------
(* What the rendered controls let the user do *)

\* the chat Input (Enter key) is disabled while chatLoading
SendEnabled == ~chatLoading

\* mutant of DeleteEnabled: the button is not disabled while chatLoading
DeleteEnabledNoGate ==
  emailPreviews # <<>> /\ ~(selectedEmails = {})

\* the Delete Selected button is rendered with a non-empty batch and is
\* disabled with an empty selection or while chatLoading
DeleteEnabled ==
  emailPreviews # <<>> /\ ~(selectedEmails = {} \/ chatLoading)

\* the Select All button is rendered with a non-empty batch
SelectAllEnabled == emailPreviews # <<>>

\* mutant of RunNowEnabled: one gate shared by the chat and the periodic side
RunNowEnabledSharedGate == ~periodicLoading /\ ~chatLoading

\* mutant of TestRunEnabled: the button is never disabled
TestRunEnabledAlways == TRUE

\* the Run Cleanup Now and Test Run buttons are disabled while periodicLoading
RunNowEnabled == ~periodicLoading

TestRunEnabled == ~periodicLoading

\* the exploration allows one more gateway call
CanCall(maxCalls) == nCalls < maxCalls

---------------------------------------------------------------------------
(* Chat input *)

\* onChange of the chat Input, which is disabled while chatLoading
TypeChatInput(v) ==
  /\ ~chatLoading
  /\ chatInput' = v
  /\ last' = NoEvent
  /\ UNCHANGED settingsVars
  /\ UNCHANGED toggled
  /\ UNCHANGED <<now, activityLog, lsActivityLog, chatMessages, chatLoading,
                 emailPreviews, selectedEmails, chatError, periodicLoading,
                 periodicError, chatReqs, perReqs, nCalls, nAppends>>

\* a suggestion chip
SuggestionChip ==
  /\ chatInput' = ChipText
  /\ last' = NoEvent
  /\ UNCHANGED settingsVars
  /\ UNCHANGED toggled
  /\ UNCHANGED <<now, activityLog, lsActivityLog, chatMessages, chatLoading,
                 emailPreviews, selectedEmails, chatError, periodicLoading,
                 periodicError, chatReqs, perReqs, nCalls, nAppends>>

---------------------------------------------------------------------------
(* sendChatMessage, up to its await *)

\* mutant of SendRejects: the input is not trimmed
SendRejectsNoTrim == chatInput = <<>> \/ chatLoading

\* if (!chatInput.trim() || chatLoading) return
SendRejects == Trim(chatInput) = <<>> \/ chatLoading

\* the handler past its guard: the user message is appended, the input
\* cleared, the gate set, the error cleared and the gateway called
SendAccepted ==
  /\ chatMessages' = Append(chatMessages, Message(now, "user", chatInput))
  /\ chatInput' = <<>>
  /\ chatLoading' = TRUE
  /\ chatError' = Null
  /\ chatReqs' = Append(chatReqs, Request("submit", chatInput))
  /\ nCalls' = nCalls + 1
  /\ last' = Event("sendChatMessage:call", Request("submit", chatInput), NoResp, TRUE)

SendChatMessage(maxCalls) ==
  /\ SendEnabled
  /\ IF SendRejects
       THEN /\ last' = Event("sendChatMessage:return", NoReq, NoResp, TRUE)
            /\ UNCHANGED <<chatMessages, chatInput, chatLoading, chatError,
                           chatReqs, nCalls>>
       ELSE /\ CanCall(maxCalls)
            /\ SendAccepted
  /\ UNCHANGED settingsVars
  /\ UNCHANGED toggled
  /\ UNCHANGED <<now, activityLog, lsActivityLog, emailPreviews, selectedEmails,
                 periodicLoading, periodicError, perReqs, nAppends>>

---------------------------------------------------------------------------
(* deleteSelectedEmails, up to its await *)

\* if (selectedEmails.size === 0) return
DeleteRejects == Cardinality(selectedEmails) = 0

DeleteSelectedEmails(maxCalls) ==
  /\ DeleteEnabled
  /\ IF DeleteRejects
       THEN /\ last' = Event("deleteSelectedEmails:return", NoReq, NoResp, TRUE)
            /\ UNCHANGED <<chatLoading, chatError, chatReqs, nCalls>>
       ELSE /\ CanCall(maxCalls)
            /\ chatLoading' = TRUE
            /\ chatError' = Null
            /\ chatReqs' = Append(chatReqs, Request("delete", <<>>))
            /\ nCalls' = nCalls + 1
            /\ last' = Event("deleteSelectedEmails:call", Request("delete", <<>>), NoResp, TRUE)
  /\ UNCHANGED settingsVars
  /\ UNCHANGED toggled
  /\ UNCHANGED <<now, activityLog, lsActivityLog, chatMessages, chatInput,
                 emailPreviews, selectedEmails, periodicLoading, periodicError,
                 perReqs, nAppends>>

---------------------------------------------------------------------------
(* Selection *)

\* mutant of ToggleEmailSelection: a selected id is not removed
ToggleEmailSelectionAddOnly(emailId) ==
  /\ emailId \in Range(emailPreviews)
  /\ selectedEmails' = selectedEmails \cup {emailId}
  /\ toggled' = [toggled EXCEPT !.odd = IF emailId \in @ THEN @ \ {emailId}
                                                            ELSE @ \cup {emailId}]
  /\ last' = Event("toggleEmailSelection", NoReq, NoResp, TRUE)
  /\ UNCHANGED settingsVars
  /\ UNCHANGED <<now, activityLog, lsActivityLog, chatMessages, chatInput,
                 chatLoading, emailPreviews, chatError, periodicLoading,
                 periodicError, chatReqs, perReqs, nCalls, nAppends>>

\* toggleEmailSelection, bound to the card of each preview of the batch
ToggleEmailSelection(emailId) ==
  /\ emailId \in Range(emailPreviews)
  /\ selectedEmails' = IF emailId \in selectedEmails
                         THEN selectedEmails \ {emailId}
                         ELSE selectedEmails \cup {emailId}
  /\ toggled' = [toggled EXCEPT !.odd = IF emailId \in @ THEN @ \ {emailId}
                                                            ELSE @ \cup {emailId}]
  /\ last' = Event("toggleEmailSelection", NoReq, NoResp, TRUE)
  /\ UNCHANGED settingsVars
  /\ UNCHANGED <<now, activityLog, lsActivityLog, chatMessages, chatInput,
                 chatLoading, emailPreviews, chatError, periodicLoading,
                 periodicError, chatReqs, perReqs, nCalls, nAppends>>

\* mutant of SelectAllEmails: a pure "select all" that never clears
SelectAllEmailsNeverClears ==
  /\ SelectAllEnabled
  /\ selectedEmails' = Range(emailPreviews)
  /\ toggled' = Toggles(FALSE, {})
  /\ last' = Event(IF last.op \in {"selectAllEmails", "selectAllEmails:again"}
                     THEN "selectAllEmails:again"
                     ELSE "selectAllEmails", NoReq, NoResp, TRUE)
  /\ UNCHANGED settingsVars
  /\ UNCHANGED <<now, activityLog, lsActivityLog, chatMessages, chatInput,
                 chatLoading, emailPreviews, chatError, periodicLoading,
                 periodicError, chatReqs, perReqs, nCalls, nAppends>>

\* selectAllEmails
SelectAllEmails ==
  /\ SelectAllEnabled
  /\ selectedEmails' = IF Cardinality(selectedEmails) = Len(emailPreviews)
                         THEN {}
                         ELSE Range(emailPreviews)
  /\ toggled' = Toggles(FALSE, {})
  /\ last' = Event(IF last.op \in {"selectAllEmails", "selectAllEmails:again"}
                     THEN "selectAllEmails:again"
                     ELSE "selectAllEmails", NoReq, NoResp, TRUE)
  /\ UNCHANGED settingsVars
  /\ UNCHANGED <<now, activityLog, lsActivityLog, chatMessages, chatInput,
                 chatLoading, emailPreviews, chatError, periodicLoading,
                 periodicError, chatReqs, perReqs, nCalls, nAppends>>

---------------------------------------------------------------------------
(* sendChatMessage, from its await on *)

\* mutant of SendCatch: the message appended last is taken back before the
\* error message is appended
SendCatchRollsBack(msgs) ==
  /\ chatError' = NetworkError
  /\ chatMessages' = Append(SubSeq(msgs, 1, Len(msgs) - 1),
                            Message(now + 1, "assistant", NetworkError))

\* the catch block of sendChatMessage, entered with the transcript `msgs`
SendCatch(msgs) ==
  /\ chatError' = NetworkError
  /\ chatMessages' = Append(msgs, Message(now + 1, "assistant", NetworkError))

\* mutant of SendSuccess: an entry is recorded only for more than one
\* deleted email
SendSuccessAboveOne(req, data, stored) ==
  LET answered == Append(chatMessages, Message(now + 1, "assistant", data.message))
  IN IF ~data.present
       THEN /\ SendCatch(chatMessages)
            /\ NoActivityLog
            /\ UNCHANGED <<emailPreviews, selectedEmails>>
       ELSE /\ IF Len(data.email_preview) > 0
                 THEN /\ emailPreviews' = data.email_preview
                      /\ selectedEmails' = {}
                 ELSE /\ emailPreviews' = <<>>
                      /\ UNCHANGED selectedEmails
            /\ IF data.emails_deleted > 1 /\ data.hasCriteria
                 THEN /\ addActivityLog(req.log,
                           <<"Chat cleanup: ">> \o Or(data.category, <<"emails">>),
                           data.emails_deleted, "success", stored)
                      /\ chatMessages' = answered
                      /\ UNCHANGED chatError
                 ELSE /\ chatMessages' = answered
                      /\ NoActivityLog
                      /\ UNCHANGED chatError

\* the success branch; data.message of a missing result throws before any
\* state is set, criteria_identified.category of missing criteria throws
\* after the transcript and the previews were set
SendSuccess(req, data, stored) ==
  LET answered == Append(chatMessages, Message(now + 1, "assistant", data.message))
  IN IF ~data.present
       THEN /\ SendCatch(chatMessages)
            /\ NoActivityLog
            /\ UNCHANGED <<emailPreviews, selectedEmails>>
       ELSE /\ IF Len(data.email_preview) > 0
                 THEN /\ emailPreviews' = data.email_preview
                      /\ selectedEmails' = {}
                 ELSE /\ emailPreviews' = <<>>
                      /\ UNCHANGED selectedEmails
            /\ IF data.emails_deleted > 0
                 THEN IF data.hasCriteria
                        THEN /\ addActivityLog(req.log,
                                  <<"Chat cleanup: ">> \o Or(data.category, <<"emails">>),
                                  data.emails_deleted, "success", stored)
                             /\ chatMessages' = answered
                             /\ UNCHANGED chatError
                        ELSE /\ SendCatch(answered)
                             /\ NoActivityLog
                 ELSE /\ chatMessages' = answered
                      /\ NoActivityLog
                      /\ UNCHANGED chatError

\* the else branch
SendFailure(resp) ==
  LET errorMsg == Or(resp.error, Or(resp.message, FailedToProcess))
  IN /\ chatError' = errorMsg
     /\ chatMessages' = Append(chatMessages, Message(now + 1, "assistant", errorMsg))
     /\ NoActivityLog
     /\ UNCHANGED <<emailPreviews, selectedEmails>>

SendSettles(req, resp, stored) ==
  /\ IF resp.rejected
       THEN /\ SendCatch(chatMessages)
            /\ NoActivityLog
            /\ UNCHANGED <<emailPreviews, selectedEmails>>
       ELSE IF IsSuccess(resp)
              THEN SendSuccess(req, resp.result, stored)
              ELSE SendFailure(resp)
  /\ chatLoading' = FALSE

---------------------------------------------------------------------------
(* deleteSelectedEmails, from its await on *)

\* mutant of DeleteSuccess: the selection is read when the call settles and
\* not when the handler was invoked
DeleteSuccessCurrentSelection(req, data, stored) ==
  IF ~data.present
    THEN /\ chatError' = NetworkError
         /\ NoActivityLog
         /\ UNCHANGED <<emailPreviews, selectedEmails, chatMessages>>
    ELSE /\ addActivityLog(req.log,
              <<"Deleted ", ToString(Cardinality(selectedEmails)), " selected emails">>,
              data.emails_deleted, "success", stored)
         /\ emailPreviews' = SelectSeq(emailPreviews, LAMBDA e : e \notin selectedEmails)
         /\ selectedEmails' = {}
         /\ chatMessages' = Append(chatMessages,
              Message(now, "assistant",
                <<"Successfully deleted ", ToString(data.emails_deleted), " emails.">>))
         /\ UNCHANGED chatError

\* mutant of DeleteSuccess: the entry counts the selected ids and not the
\* emails the response reports
DeleteSuccessCountsSelection(req, data, stored) ==
  IF ~data.present
    THEN /\ chatError' = NetworkError
         /\ NoActivityLog
         /\ UNCHANGED <<emailPreviews, selectedEmails, chatMessages>>
    ELSE /\ addActivityLog(req.log,
              <<"Deleted ", ToString(Cardinality(req.sel)), " selected emails">>,
              Cardinality(req.sel), "success", stored)
         /\ emailPreviews' = SelectSeq(emailPreviews, LAMBDA e : e \notin req.sel)
         /\ selectedEmails' = {}
         /\ chatMessages' = Append(chatMessages,
              Message(now, "assistant",
                <<"Successfully deleted ", ToString(data.emails_deleted), " emails.">>))
         /\ UNCHANGED chatError

\* the success branch; data.emails_deleted of a missing result throws while
\* the arguments of addActivityLog are evaluated
DeleteSuccess(req, data, stored) ==
  IF ~data.present
    THEN /\ chatError' = NetworkError
         /\ NoActivityLog
         /\ UNCHANGED <<emailPreviews, selectedEmails, chatMessages>>
    ELSE /\ addActivityLog(req.log,
              <<"Deleted ", ToString(Cardinality(req.sel)), " selected emails">>,
              data.emails_deleted, "success", stored)
         /\ emailPreviews' = SelectSeq(emailPreviews, LAMBDA e : e \notin req.sel)
         /\ selectedEmails' = {}
         /\ chatMessages' = Append(chatMessages,
              Message(now, "assistant",
                <<"Successfully deleted ", ToString(data.emails_deleted), " emails.">>))
         /\ UNCHANGED chatError

DeleteSettles(req, resp, stored) ==
  /\ IF resp.rejected
       THEN /\ chatError' = NetworkError
            /\ NoActivityLog
            /\ UNCHANGED <<emailPreviews, selectedEmails, chatMessages>>
       ELSE IF IsSuccess(resp)
              THEN DeleteSuccess(req, resp.result, stored)
              ELSE /\ chatError' = Or(resp.error, FailedToDelete)
                   /\ NoActivityLog
                   /\ UNCHANGED <<emailPreviews, selectedEmails, chatMessages>>
  /\ chatLoading' = FALSE

\* the i-th call to the interactive agent settles with resp
ChatSettles(i, resp, stored) ==
  /\ i \in 1..Len(chatReqs)
  /\ LET req == chatReqs[i]
     IN /\ IF req.kind = "submit"
             THEN SendSettles(req, resp, stored)
             ELSE DeleteSettles(req, resp, stored)
        /\ last' = Event(req.kind, req, resp, stored)
        /\ toggled' =
             IF IsSuccess(resp) /\ resp.result.present
               THEN IF req.kind = "delete" \/ Len(resp.result.email_preview) > 0
                      THEN Toggles(TRUE, {})
                      ELSE Toggles(FALSE, {})
               ELSE toggled
  /\ nAppends' = nAppends => stored
  /\ chatReqs' = Remove(chatReqs, i)
  /\ UNCHANGED settingsVars
  /\ UNCHANGED <<now, chatInput, periodicLoading, periodicError, perReqs, nCalls>>

---------------------------------------------------------------------------
(* runCleanupNow and testRunCleanup, up to their await *)

RunCleanupNow(maxCalls) ==
  /\ RunNowEnabled
  /\ CanCall(maxCalls)
  /\ periodicLoading' = TRUE
  /\ periodicError' = Null
  /\ perReqs' = Append(perReqs, Request("runNow", <<>>))
  /\ nCalls' = nCalls + 1
  /\ last' = Event("runCleanupNow:call", Request("runNow", <<>>), NoResp, TRUE)
  /\ UNCHANGED settingsVars
  /\ UNCHANGED toggled
  /\ UNCHANGED <<now, activityLog, lsActivityLog, chatMessages, chatInput,
                 chatLoading, emailPreviews, selectedEmails, chatError,
                 chatReqs, nAppends>>

TestRunCleanup(maxCalls) ==
  /\ TestRunEnabled
  /\ CanCall(maxCalls)
  /\ periodicLoading' = TRUE
  /\ periodicError' = Null
  /\ perReqs' = Append(perReqs, Request("testRun", <<>>))
  /\ nCalls' = nCalls + 1
  /\ last' = Event("testRunCleanup:call", Request("testRun", <<>>), NoResp, TRUE)
  /\ UNCHANGED settingsVars
  /\ UNCHANGED toggled
  /\ UNCHANGED <<now, activityLog, lsActivityLog, chatMessages, chatInput,
                 chatLoading, emailPreviews, selectedEmails, chatError,
                 chatReqs, nAppends>>

---------------------------------------------------------------------------
(* runCleanupNow, from its await on *)

\* the catch block of runCleanupNow
RunNowCatch(req, stored) ==
  /\ periodicError' = NetworkError
  /\ addActivityLog(req.log, <<"Scheduled cleanup failed">>, 0, "error", stored)

\* mutant of RunNowSettles: the entry counts the processed emails and not
\* the deleted ones
RunNowSettlesCountsProcessed(req, resp, stored) ==
  /\ IF resp.rejected \/ (IsSuccess(resp) /\ ~resp.result.present)
       THEN RunNowCatch(req, stored)
       ELSE IF IsSuccess(resp)
              THEN /\ addActivityLog(req.log, <<"Scheduled cleanup executed">>,
                        resp.result.total_emails_processed, "success", stored)
                   /\ UNCHANGED periodicError
              ELSE /\ periodicError' = Or(resp.error, CleanupFailed)
                   /\ addActivityLog(req.log, <<"Scheduled cleanup failed">>,
                        0, "error", stored)
  /\ periodicLoading' = FALSE

\* mutant of RunNowSettles: a failure envelope sets the error slot and adds
\* no entry
RunNowSettlesSilent(req, resp, stored) ==
  /\ IF resp.rejected \/ (IsSuccess(resp) /\ ~resp.result.present)
       THEN RunNowCatch(req, stored)
       ELSE IF IsSuccess(resp)
              THEN /\ addActivityLog(req.log, <<"Scheduled cleanup executed">>,
                        resp.result.total_emails_deleted, "success", stored)
                   /\ UNCHANGED periodicError
              ELSE /\ periodicError' = Or(resp.error, CleanupFailed)
                   /\ NoActivityLog
  /\ periodicLoading' = FALSE

\* the try block; data.cleanup_summary of a missing result throws while the
\* arguments of addActivityLog are evaluated
RunNowSettles(req, resp, stored) ==
  /\ IF resp.rejected
       THEN RunNowCatch(req, stored)
       ELSE IF IsSuccess(resp)
              THEN IF ~resp.result.present
                     THEN RunNowCatch(req, stored)
                     ELSE /\ addActivityLog(req.log, <<"Scheduled cleanup executed">>,
                               resp.result.total_emails_deleted, "success", stored)
                          /\ UNCHANGED periodicError
              ELSE /\ periodicError' = Or(resp.error, CleanupFailed)
                   /\ addActivityLog(req.log, <<"Scheduled cleanup failed">>,
                        0, "error", stored)
  /\ periodicLoading' = FALSE

---------------------------------------------------------------------------
(* testRunCleanup, from its await on *)

\* mutant of TestRunSettles: the entry of a dry run counts the deleted emails
\* the response reports
TestRunSettlesCountsDeleted(req, resp, stored) ==
  /\ IF resp.rejected \/ (IsSuccess(resp) /\ ~resp.result.present)
       THEN /\ periodicError' = NetworkError
            /\ NoActivityLog
       ELSE IF IsSuccess(resp)
              THEN /\ addActivityLog(req.log,
                        <<"Test run: would delete ",
                          ToString(resp.result.total_emails_processed),
                          " emails">>,
                        resp.result.total_emails_deleted, "success", stored)
                   /\ UNCHANGED periodicError
              ELSE /\ periodicError' = Or(resp.error, TestRunFailed)
                   /\ NoActivityLog
  /\ periodicLoading' = FALSE

\* mutant of TestRunSettles: testRunCleanup handles its outcomes the way
\* runCleanupNow does
TestRunSettlesAsRunNow(req, resp, stored) == RunNowSettles(req, resp, stored)

\* mutant of TestRunSettles: the gate is cleared at the end of the try block
\* and not in a finally block
TestRunSettlesNoFinally(req, resp, stored) ==
  IF resp.rejected \/ (IsSuccess(resp) /\ ~resp.result.present)
    THEN /\ periodicError' = NetworkError
         /\ NoActivityLog
         /\ UNCHANGED periodicLoading
    ELSE /\ IF IsSuccess(resp)
              THEN /\ addActivityLog(req.log,
                        <<"Test run: would delete ",
                          ToString(resp.result.total_emails_processed),
                          " emails">>,
                        0, "success", stored)
                   /\ UNCHANGED periodicError
              ELSE /\ periodicError' = Or(resp.error, TestRunFailed)
                   /\ NoActivityLog
         /\ periodicLoading' = FALSE

TestRunSettles(req, resp, stored) ==
  /\ IF resp.rejected
       THEN /\ periodicError' = NetworkError
            /\ NoActivityLog
       ELSE IF IsSuccess(resp)
              THEN IF ~resp.result.present
                     THEN /\ periodicError' = NetworkError
                          /\ NoActivityLog
                     ELSE /\ addActivityLog(req.log,
                               <<"Test run: would delete ",
                                 ToString(resp.result.total_emails_processed),
                                 " emails">>,
                               0, "success", stored)
                          /\ UNCHANGED periodicError
              ELSE /\ periodicError' = Or(resp.error, TestRunFailed)
                   /\ NoActivityLog
  /\ periodicLoading' = FALSE

\* the i-th call to the periodic agent settles with resp
PeriodicSettles(i, resp, stored) ==
  /\ i \in 1..Len(perReqs)
  /\ LET req == perReqs[i]
     IN /\ IF req.kind = "runNow"
             THEN RunNowSettles(req, resp, stored)
             ELSE TestRunSettles(req, resp, stored)
        /\ last' = Event(req.kind, req, resp, stored)
  /\ nAppends' = nAppends => stored
  /\ perReqs' = Remove(perReqs, i)
  /\ UNCHANGED settingsVars
  /\ UNCHANGED toggled
  /\ UNCHANGED <<now, chatMessages, chatInput, chatLoading, emailPreviews,
                 selectedEmails, chatError, chatReqs, nCalls>>

---------------------------------------------------------------------------
(* The Settings tab *)

\* settings[f] is truthy
Truthy(s, f) == f \in DOMAIN s /\ s[f] = TRUE

\* the tab renders settings.maxEmailsPerRun.toString() and, under
\* settings.oldEmails, settings.ageThreshold.toString(): a missing key throws
\* in render and no control of the tab can be used
SettingsTabRenders ==
  /\ "maxEmailsPerRun" \in DOMAIN settings
  /\ Truthy(settings, "oldEmails") => "ageThreshold" \in DOMAIN settings

\* the age Select is rendered under oldEmails, the frequency Select and the
\* time input under scheduleEnabled
ControlRendered(f) ==
  CASE f = "ageThreshold" -> Truthy(settings, "oldEmails")
    [] f \in {"frequency", "scheduleTime"} -> Truthy(settings, "scheduleEnabled")
    [] OTHER -> TRUE

\* mutant of SetSettings: every change of a control is stored at once
SetSettingsAutoSave(f, v) ==
  /\ SettingsTabRenders
  /\ ControlRendered(f)
  /\ settings' = [g \in DOMAIN settings \cup {f} |-> IF g = f THEN v ELSE settings[g]]
  /\ lsSettings' = StoredSettings(settings')
  /\ last' = Event("setSettings", NoReq, NoResp, TRUE)
  /\ UNCHANGED settingsSaved
  /\ UNCHANGED <<now, activityLog, lsActivityLog, chatMessages, chatInput,
                 chatLoading, emailPreviews, selectedEmails, chatError,
                 periodicLoading, periodicError, chatReqs, perReqs, nCalls,
                 nAppends, toggled>>

\* setSettings(prev => ({ ...prev, [f]: v })) of the control of key f
SetSettings(f, v) ==
  /\ SettingsTabRenders
  /\ ControlRendered(f)
  /\ settings' = [g \in DOMAIN settings \cup {f} |-> IF g = f THEN v ELSE settings[g]]
  /\ last' = Event("setSettings", NoReq, NoResp, TRUE)
  /\ UNCHANGED <<lsSettings, settingsSaved>>
  /\ UNCHANGED <<now, activityLog, lsActivityLog, chatMessages, chatInput,
                 chatLoading, emailPreviews, selectedEmails, chatError,
                 periodicLoading, periodicError, chatReqs, perReqs, nCalls,
                 nAppends, toggled>>

\* saveSettings; a throwing setItem is caught and logged to the console
SaveSettings(stored) ==
  /\ SettingsTabRenders
  /\ IF stored
       THEN /\ lsSettings' = StoredSettings(settings)
            /\ settingsSaved' = TRUE
       ELSE UNCHANGED <<lsSettings, settingsSaved>>
  /\ last' = Event("saveSettings", NoReq, NoResp, stored)
  /\ UNCHANGED settings
  /\ UNCHANGED <<now, activityLog, lsActivityLog, chatMessages, chatInput,
                 chatLoading, emailPreviews, selectedEmails, chatError,
                 periodicLoading, periodicError, chatReqs, perReqs, nCalls,
                 nAppends, toggled>>

\* setTimeout(() => setSettingsSaved(false), 3000)
SettingsSavedTimeout ==
  /\ settingsSaved
  /\ settingsSaved' = FALSE
  /\ last' = NoEvent
  /\ UNCHANGED <<settings, lsSettings>>
  /\ UNCHANGED <<now, activityLog, lsActivityLog, chatMessages, chatInput,
                 chatLoading, emailPreviews, selectedEmails, chatError,
                 periodicLoading, periodicError, chatReqs, perReqs, nCalls,
                 nAppends, toggled>>

\* the page is loaded again: the component is constructed anew from the store
\* and the calls of the old page are gone
Reload ==
  /\ settings' = loadSettings(lsSettings)
  /\ settingsSaved' = FALSE
  /\ activityLog' = loadActivityLog(lsActivityLog)
  /\ chatMessages' = <<>>
  /\ chatInput' = <<>>
  /\ chatLoading' = FALSE
  /\ emailPreviews' = <<>>
  /\ selectedEmails' = {}
  /\ chatError' = Null
  /\ periodicLoading' = FALSE
  /\ periodicError' = Null
  /\ chatReqs' = <<>>
  /\ perReqs' = <<>>
  /\ toggled' = Toggles(TRUE, {})
  /\ last' = Event("reload", NoReq, NoResp, TRUE)
  /\ UNCHANGED <<now, lsSettings, lsActivityLog, nCalls, nAppends>>

---------------------------------------------------------------------------
(* The clock *)

Tick ==
  /\ now < MaxClock
  /\ now' = now + 1
  /\ last' = NoEvent
  /\ UNCHANGED settingsVars
  /\ UNCHANGED toggled
  /\ UNCHANGED <<activityLog, lsActivityLog, chatMessages, chatInput,
                 chatLoading, emailPreviews, selectedEmails, chatError,
                 periodicLoading, periodicError, chatReqs, perReqs, nCalls,
                 nAppends>>

---------------------------------------------------------------------------
(* Specifications *)

\* some call to the interactive agent settles with a response of `responses`
ChatSettlesSome(responses) ==
  \E i \in DOMAIN chatReqs, resp \in responses, stored \in BOOLEAN :
    ChatSettles(i, resp, stored)

\* some call to the periodic agent settles with a response of `responses`
PeriodicSettlesSome(responses) ==
  \E i \in DOMAIN perReqs, resp \in responses, stored \in BOOLEAN :
    PeriodicSettles(i, resp, stored)

\* one event: a user action or a gateway call settling
Step(maxCalls, chatResponses, periodicResponses) ==
  \/ \E v \in Inputs : TypeChatInput(v)
  \/ SuggestionChip
  \/ SendChatMessage(maxCalls)
  \/ DeleteSelectedEmails(maxCalls)
  \/ \E emailId \in Ids : ToggleEmailSelection(emailId)
  \/ SelectAllEmails
  \/ RunCleanupNow(maxCalls)
  \/ TestRunCleanup(maxCalls)
  \/ ChatSettlesSome(chatResponses)
  \/ PeriodicSettlesSome(periodicResponses)

Next == Step(MaxCalls, ChatResponses, PeriodicResponses)

NextDeep == Step(DeepCalls, CoreChatResponses, CorePeriodicResponses)

\* No guard and no branch of the handlers reads the clock: it only feeds the
\* id and timestamp fields.  Spec lets every event happen at one clock
\* reading; SpecClock lets the clock advance between events.
Spec == Init /\ [][Next]_vars

NextClock == Next \/ Tick

SpecClock == Init /\ [][NextClock]_vars

\* more calls per behaviour, with one response for each path of the handlers
SpecDeep == Init /\ [][NextDeep]_vars

\* the session starts with a full log
SpecFull == InitFull /\ [][Next]_vars

\* the Settings tab and the store of the settings, over every store content
NextSettings ==
  \/ \E f \in Range(Fields) : \E v \in Choices[f] : SetSettings(f, v)
  \/ \E stored \in BOOLEAN : SaveSettings(stored)
  \/ SettingsSavedTimeout
  \/ Reload

SpecSettings == InitSettings /\ [][NextSettings]_vars

\* the handlers of the chat and periodic side next to the Settings tab, of
\* which two controls are used: a Switch and a Select
FrameFields == {"promotional", "ageThreshold"}

NextFrame ==
  \/ Step(MaxCalls, CoreChatResponses, CorePeriodicResponses)
  \/ \E f \in FrameFields : \E v \in Choices[f] : SetSettings(f, v)
  \/ \E stored \in BOOLEAN : SaveSettings(stored)
  \/ SettingsSavedTimeout

SpecFrame == Init /\ [][NextFrame]_vars

\* every gateway call eventually resolves or rejects
SpecLive ==
  /\ SpecDeep
  /\ WF_vars(ChatSettlesSome(CoreChatResponses))
  /\ WF_vars(PeriodicSettlesSome(CorePeriodicResponses))

---------------------------------------------------------------------------
(* Events of the history variable *)

ChatSettled == last.op \in {"submit", "delete"}

PeriodicSettled == last.op \in {"runNow", "testRun"}

\* a settled sendChatMessage that ran its success branch to the end
SubmitSucceeded ==
  /\ last.op = "submit"
  /\ IsSuccess(last.resp)
  /\ last.resp.result.present
  /\ last.resp.result.emails_deleted > 0 => last.resp.result.hasCriteria

SeqsOf(log) == {log[i].seq : i \in 1..Len(log)}

\* a failure envelope: result.success is false or the inner status is not
\* 'success'
AgentFailure(resp) == ~resp.rejected /\ ~IsSuccess(resp)

\* a success envelope whose result cannot be read
Malformed(resp) == IsSuccess(resp) /\ ~resp.result.present

\* a settled handler that did not run its success branch to the end
SubmitFailed == last.op = "submit" /\ ~SubmitSucceeded

DeleteFailed ==
  last.op = "delete" /\ (~IsSuccess(last.resp) \/ Malformed(last.resp))

TestRunFailedEvent ==
  last.op = "testRun" /\ (~IsSuccess(last.resp) \/ Malformed(last.resp))

\* the step made one call of addActivityLog, whose entry heads the log with
\* the given count and status; where the log did not change while the call
\* was in flight, the entries below the head are the log of before, cut to
\* the cap
Recorded(emailsDeleted, status) ==
  /\ nAppends' = nAppends + 1
  /\ activityLog' # <<>>
  /\ activityLog'[1].seq = nAppends'
  /\ activityLog'[1].emailsDeleted = emailsDeleted
  /\ activityLog'[1].status = status
  /\ last'.req.log = activityLog =>
       Tail(activityLog') = Take(activityLog, LogCap - 1)

NotRecorded == UNCHANGED <<activityLog, lsActivityLog, nAppends>>

---------------------------------------------------------------------------
(* Claims *)

\* C1: at most one call to the interactive agent is outstanding, counting
\* sendChatMessage and deleteSelectedEmails alike, and the chat gate is set
\* for as long as one is outstanding.
C1_OneChatRequest ==
  /\ Len(chatReqs) <= 1
  /\ chatReqs # <<>> => chatLoading

\* a delete is outstanding while the input holds a sendable text and previews
\* are selected: neither a second send nor a second delete can be invoked
C1_Witness ==
  /\ Len(chatReqs) = 1
  /\ chatReqs[1].kind = "delete"
  /\ Trim(chatInput) # <<>>
  /\ selectedEmails # {}
  /\ emailPreviews # <<>>
  /\ ~SendEnabled
  /\ ~DeleteEnabled

\* C2: at most one call to the periodic agent is outstanding, and the
\* periodic loading flag is set for as long as one is outstanding.
C2_OnePeriodicRequest ==
  /\ Len(perReqs) <= 1
  /\ perReqs # <<>> => periodicLoading

C2_Witness ==
  /\ Len(perReqs) = 1
  /\ perReqs[1].kind = "runNow"
  /\ ~RunNowEnabled
  /\ ~TestRunEnabled

\* C3: every entry ever appended is still in the in-memory log, unless at
\* least LogCap later appends pushed it out.
C3_NoEntryLost ==
  \A k \in 1..nAppends :
    nAppends - k < LogCap => k \in SeqsOf(activityLog)

\* C4: the selection holds only ids of previews of the current batch.
C4_SelectionInBatch == selectedEmails \subseteq Range(emailPreviews)

\* C5: right after a sendChatMessage that succeeded (and so replaced the
\* preview batch, possibly by the empty list) the selection is empty.
C5_SelectionResetOnReplace == SubmitSucceeded => selectedEmails = {}

\* C6: the log never holds more than LogCap entries, is ordered newest first,
\* and an append puts the new entry first, keeps the other entries in order
\* and drops the oldest one, and only that one, when the log was full.
C6_AppendStep ==
  nAppends' = nAppends + 1 =>
    /\ Len(activityLog') <= LogCap
    /\ activityLog'[1].seq = nAppends'
    /\ Tail(activityLog') = Take(activityLog, LogCap - 1)

C6_CappedNewestFirst ==
  /\ [](Len(activityLog) <= LogCap)
  /\ [](\A i \in 1..(Len(activityLog) - 1) :
          activityLog[i].seq > activityLog[i + 1].seq)
  /\ [][C6_AppendStep]_vars

\* C7: sendChatMessage invoked with an empty or whitespace-only input, or
\* with the chat gate set, changes nothing: no message, no call, and input,
\* gate, error, previews, selection and log stay as they are.
C7_SubmitCall ==
  last'.op \in {"sendChatMessage:return", "sendChatMessage:call"}

C7_RejectedSubmitIsNoOp ==
  [][(C7_SubmitCall /\ (Trim(chatInput) = <<>> \/ chatLoading)) =>
       UNCHANGED <<chatMessages, chatReqs, nCalls, chatInput, chatLoading,
                   chatError, emailPreviews, selectedEmails, activityLog,
                   lsActivityLog>>]_vars

\* sendChatMessage has returned early on a whitespace-only input
C7_Witness ==
  /\ last.op = "sendChatMessage:return"
  /\ chatInput = <<Space>>
  /\ chatReqs = <<>>
  /\ chatMessages = <<>>

\* C8: once the gateway call of an accepted handler settles, with whatever
\* outcome, the gate of that handler is clear; and with every gateway call
\* settling, a set gate is eventually clear.
C8_GateClears ==
  /\ [](ChatSettled => ~chatLoading)
  /\ [](PeriodicSettled => ~periodicLoading)
  /\ chatLoading ~> ~chatLoading
  /\ periodicLoading ~> ~periodicLoading

\* a runCleanupNow whose successful envelope carried no result left its gate
\* clear
C8_Witness ==
  /\ last.op = "runNow"
  /\ IsSuccess(last.resp)
  /\ ~last.resp.result.present
  /\ ~periodicLoading
  /\ perReqs = <<>>

\* C9: the gates are independent: with a periodic call outstanding the chat
\* handlers are still accepted and send, with a chat call outstanding the
\* periodic handlers are still accepted and send, and a call that settles
\* leaves the gate and the calls of the other kind alone.
C9_ChatOpenDuringPeriodic ==
  (perReqs # <<>> /\ ~chatLoading /\ CanCall(DeepCalls)) =>
    /\ Trim(chatInput) # <<>> =>
         ENABLED (SendChatMessage(DeepCalls) /\ Len(chatReqs') = Len(chatReqs) + 1)
    /\ (selectedEmails # {} /\ emailPreviews # <<>>) =>
         ENABLED (DeleteSelectedEmails(DeepCalls) /\ Len(chatReqs') = Len(chatReqs) + 1)

C9_PeriodicOpenDuringChat ==
  (chatReqs # <<>> /\ ~periodicLoading /\ CanCall(DeepCalls)) =>
    /\ ENABLED RunCleanupNow(DeepCalls)
    /\ ENABLED TestRunCleanup(DeepCalls)

C9_SettleLeavesOtherGate ==
  /\ PeriodicSettled' => UNCHANGED <<chatLoading, chatReqs>>
  /\ ChatSettled' => UNCHANGED <<periodicLoading, perReqs>>

C9_GatesIndependent ==
  /\ []C9_ChatOpenDuringPeriodic
  /\ []C9_PeriodicOpenDuringChat
  /\ [][C9_SettleLeavesOtherGate]_vars

\* a delete was accepted and sent while a periodic call was outstanding
C9_Witness ==
  /\ last.op = "deleteSelectedEmails:call"
  /\ Len(chatReqs) = 1
  /\ chatReqs[1].kind = "delete"
  /\ Len(perReqs) = 1
  /\ chatLoading
  /\ periodicLoading

\* C10: a gateway call that throws or rejects adds no activity entry, for
\* each of the four handlers: the log is the same before and after the step
\* that handles the failure.
C10_TransportFailureNotLogged ==
  [][((ChatSettled' \/ PeriodicSettled') /\ last'.resp.rejected) =>
       UNCHANGED <<activityLog, lsActivityLog>>]_vars

\* C11: a sendChatMessage, a deleteSelectedEmails or a testRunCleanup that
\* fails (failure envelope, inner status not 'success', result that cannot
\* be read, call rejected) adds no activity entry: the log in memory and in
\* the store is the same before and after the step that handles the failure.
C11_FailureNotLogged ==
  [][(SubmitFailed' \/ DeleteFailed' \/ TestRunFailedEvent') => NotRecorded]_vars

\* a testRunCleanup got a failure envelope after a failed runCleanupNow had
\* put an entry in the log, and the log still holds that one entry
C11_Witness ==
  /\ last.op = "testRun"
  /\ AgentFailure(last.resp)
  /\ periodicError = AgentError
  /\ Len(activityLog) = 1
  /\ activityLog[1].action = <<"Scheduled cleanup failed">>

\* C12: a runCleanupNow that gets a failure envelope records one entry with
\* emailsDeleted = 0 and status error, and sets the periodic error slot to a
\* non-empty message.
C12_RunNowFailureLogged ==
  [][(last'.op = "runNow" /\ AgentFailure(last'.resp)) =>
       /\ Recorded(0, "error")
       /\ ~Falsy(periodicError')]_vars

\* a runCleanupNow got a failure envelope without an error text
C12_Witness ==
  /\ last.op = "runNow"
  /\ AgentFailure(last.resp)
  /\ last.resp.error = Undefined
  /\ periodicError = CleanupFailed
  /\ activityLog # <<>>
  /\ activityLog[1].status = "error"
  /\ activityLog[1].emailsDeleted = 0

\* C13: a sendChatMessage or deleteSelectedEmails that ends with an error in
\* the chat error slot leaves the preview batch, the selection and the log
\* as they were before the step that handles the outcome.
C13_FailureLeavesState ==
  [][(ChatSettled' /\ chatError' # Null) =>
       UNCHANGED <<emailPreviews, selectedEmails, activityLog, lsActivityLog>>]_vars

\* C14: a sendChatMessage that succeeds records an entry exactly when the
\* result reports emails_deleted > 0: then one entry heads the log, with
\* that count and status success; with emails_deleted = 0 the log is
\* unchanged.
C14_SubmitLogsIffDeleted ==
  [][SubmitSucceeded' =>
       IF last'.resp.result.emails_deleted > 0
         THEN Recorded(last'.resp.result.emails_deleted, "success")
         ELSE NotRecorded]_vars

\* a sendChatMessage succeeded with one deleted email and a category
C14_Witness ==
  /\ SubmitSucceeded
  /\ last.resp.result.emails_deleted = 1
  /\ activityLog # <<>>
  /\ activityLog[1].emailsDeleted = 1
  /\ activityLog[1].status = "success"
  /\ activityLog[1].action = <<"Chat cleanup: ", "Promotions">>

\* C15: an accepted sendChatMessage appends one user message when it is
\* invoked and one assistant message when its call settles, whatever the
\* outcome: never two assistant messages for one submit.
C15_OneAssistantMessage ==
  [][/\ last'.op = "sendChatMessage:call" =>
          /\ Len(chatMessages') = Len(chatMessages) + 1
          /\ chatMessages'[Len(chatMessages')].role = "user"
     /\ last'.op = "submit" =>
          /\ Len(chatMessages') = Len(chatMessages) + 1
          /\ chatMessages'[Len(chatMessages')].role = "assistant"]_vars

\* the number of previews of the batch with the given id
Count(batch, id) == Cardinality({i \in 1..Len(batch) : batch[i] = id})

\* a settled deleteSelectedEmails that ran its success branch
DeleteSucceeded ==
  last.op = "delete" /\ IsSuccess(last.resp) /\ last.resp.result.present

\* C16: a deleteSelectedEmails that succeeds removes from the batch the
\* previews whose id was selected and no other, empties the selection,
\* appends one confirmation message and records one entry whose
\* emailsDeleted is the emails_deleted of the response and whose label
\* carries the number of selected ids.
C16_DeleteSuccess ==
  [][DeleteSucceeded' =>
       /\ \A id \in Ids :
            Count(emailPreviews', id) =
              IF id \in last'.req.sel THEN 0 ELSE Count(emailPreviews, id)
       /\ Len(emailPreviews') <= Len(emailPreviews)
       /\ selectedEmails' = {}
       /\ Len(chatMessages') = Len(chatMessages) + 1
       /\ SubSeq(chatMessages', 1, Len(chatMessages)) = chatMessages
       /\ chatMessages'[Len(chatMessages')].role = "assistant"
       /\ Recorded(last'.resp.result.emails_deleted, "success")
       /\ activityLog'[1].action =
            <<"Deleted ", ToString(Cardinality(last'.req.sel)), " selected emails">>]_vars

\* one of two previews was selected and the response reports no deleted
\* email: the preview is gone and the entry counts 0 under a label with 1
C16_Witness ==
  /\ DeleteSucceeded
  /\ Cardinality(last.req.sel) = 1
  /\ last.resp.result.emails_deleted = 0
  /\ Len(emailPreviews) = 1
  /\ selectedEmails = {}
  /\ activityLog[1].emailsDeleted = 0
  /\ activityLog[1].action = <<"Deleted ", "1", " selected emails">>

\* a settled testRunCleanup that ran its success branch
TestRunSucceeded ==
  last.op = "testRun" /\ IsSuccess(last.resp) /\ last.resp.result.present

\* C17: every entry of a testRunCleanup has emailsDeleted = 0, whatever the
\* response reports; a testRunCleanup that succeeds records one such entry
\* with status success and total_emails_processed in its label, one that
\* fails records none.
C17_TestRunStep ==
  last'.op = "testRun" =>
    IF TestRunSucceeded'
      THEN /\ Recorded(0, "success")
           /\ activityLog'[1].action =
                <<"Test run: would delete ",
                  ToString(last'.resp.result.total_emails_processed), " emails">>
      ELSE NotRecorded

C17_TestRunCountsZero ==
  /\ [][C17_TestRunStep]_vars
  /\ [](\A i \in 1..Len(activityLog) :
          activityLog[i].action[1] = "Test run: would delete " =>
            activityLog[i].emailsDeleted = 0)

\* a dry run whose response reports one processed and one deleted email
C17_Witness ==
  /\ TestRunSucceeded
  /\ last.resp.result.total_emails_processed = 1
  /\ last.resp.result.total_emails_deleted = 1
  /\ activityLog[1].emailsDeleted = 0
  /\ activityLog[1].action = <<"Test run: would delete ", "1", " emails">>

\* a settled runCleanupNow that ran its success branch
RunNowSucceeded ==
  last.op = "runNow" /\ IsSuccess(last.resp) /\ last.resp.result.present

\* C18: a runCleanupNow that succeeds records one entry with status success
\* whose emailsDeleted is total_emails_deleted of the response, and leaves
\* the transcript, the preview batch and the selection unchanged.
C18_RunNowSuccess ==
  [][RunNowSucceeded' =>
       /\ Recorded(last'.resp.result.total_emails_deleted, "success")
       /\ UNCHANGED <<chatMessages, emailPreviews, selectedEmails>>]_vars

\* a run whose response reports one deleted and no processed email, settled
\* while previews were shown and one was selected
C18_Witness ==
  /\ RunNowSucceeded
  /\ last.resp.result.total_emails_deleted = 1
  /\ last.resp.result.total_emails_processed = 0
  /\ activityLog[1].emailsDeleted = 1
  /\ activityLog[1].status = "success"
  /\ emailPreviews # <<>>
  /\ selectedEmails # {}

\* C19: loading the settings yields a complete, valid record, whatever the
\* store holds: the stored record where the store holds a complete one, the
\* default record otherwise.
C19_LoadedSettingsComplete ==
  last.op = "reload" =>
    /\ IsComplete(settings)
    /\ \/ settings = DefaultSettings
       \/ lsSettings.kind = "object" /\ settings = Parse(lsSettings.val)

\* the complete records of the exploration
ValidSettings ==
  [promotional : Choices.promotional, oldEmails : Choices.oldEmails,
   ageThreshold : Choices.ageThreshold, scheduleEnabled : Choices.scheduleEnabled,
   frequency : Choices.frequency, scheduleTime : Choices.scheduleTime,
   requireConfirmation : Choices.requireConfirmation,
   maxEmailsPerRun : Choices.maxEmailsPerRun] \cup {OtherSettings}

\* C20: the settings round-trip: a save of a valid record s leaves a store
\* from which load gives s, a load from a store that holds the save of s
\* gives s and nothing of an earlier record, and a load from a missing or
\* unreadable store gives the default record.
C20_SaveStep ==
  (last'.op = "saveSettings" /\ last'.stored /\ IsComplete(settings)) =>
    loadSettings(lsSettings') = settings

C20_LoadStep ==
  last'.op = "reload" =>
    /\ lsSettings.kind \in {"absent", "empty", "corrupt", "throws"} =>
         settings' = DefaultSettings
    /\ \A s \in ValidSettings : lsSettings = StoredSettings(s) => settings' = s

C20_SettingsRoundTrip == [][C20_SaveStep /\ C20_LoadStep]_vars

\* the page was loaded from a store that holds a record this session saved
\* over the one a previous session left
C20_Witness ==
  /\ last.op = "reload"
  /\ IsComplete(settings)
  /\ settings \notin {DefaultSettings, OtherSettings}
  /\ settings.ageThreshold = 7
  /\ settings.frequency = "daily"
  /\ settings.promotional = TRUE
  /\ lsSettings = StoredSettings(settings)

\* the generic and agent-supplied texts a handler can put in an error slot
\* for the outcome of its gateway call
OutcomeErrors ==
  {NetworkError, FailedToProcess, FailedToDelete, CleanupFailed, TestRunFailed,
   AgentError, AgentMessage}

\* C21: a store write that fails during an append is absorbed: the new
\* entry heads the in-memory log, the store keeps what it held, the gate of
\* the handler clears, the success effects of the handler are applied, and
\* no error slot is set on a success (the periodic slot of a failed
\* runCleanupNow holds the text of that failure, as with a working store).
C21_StorageFailureAbsorbed ==
  [][((ChatSettled' \/ PeriodicSettled') /\ ~last'.stored) =>
       /\ nAppends' = nAppends + 1
       /\ activityLog' # <<>>
       /\ activityLog'[1].seq = nAppends'
       /\ UNCHANGED lsActivityLog
       /\ ChatSettled' => ~chatLoading' /\ UNCHANGED periodicError
       /\ PeriodicSettled' => ~periodicLoading' /\ UNCHANGED chatError
       /\ (SubmitSucceeded' \/ DeleteSucceeded') => UNCHANGED chatError
       /\ SubmitSucceeded' =>
            /\ emailPreviews' = last'.resp.result.email_preview
            /\ Len(chatMessages') = Len(chatMessages) + 1
       /\ DeleteSucceeded' =>
            /\ selectedEmails' = {}
            /\ Len(chatMessages') = Len(chatMessages) + 1
            /\ Range(emailPreviews') \cap last'.req.sel = {}
       /\ (TestRunSucceeded' \/ RunNowSucceeded') => UNCHANGED periodicError
       /\ (last'.op = "runNow" /\ ~RunNowSucceeded') =>
            periodicError' \in OutcomeErrors]_vars

\* a deleteSelectedEmails succeeded while the store rejected the write: the
\* entry is in memory only, the gate is clear and no error is shown
C21_Witness ==
  /\ DeleteSucceeded
  /\ ~last.stored
  /\ Len(activityLog) = 1
  /\ lsActivityLog = Absent
  /\ ~chatLoading
  /\ chatError = Null
  /\ selectedEmails = {}

\* the step is the second of two selectAllEmails calls in a row; last.sel is
\* the selection before the first of the two
SelectAllTwice ==
  /\ last.op \in {"selectAllEmails", "selectAllEmails:again"}
  /\ last'.op = "selectAllEmails:again"

\* C22: two selectAllEmails calls in a row leave the selection empty, from
\* every starting selection and every preview batch.
C22_SelectAllTwiceEmpty == [][SelectAllTwice => selectedEmails' = {}]_vars

\* C22 as amended: two selectAllEmails calls in a row leave the selection
\* empty when the starting selection does not hold as many ids as the batch
\* has previews and the previews of the batch have pairwise distinct ids;
\* otherwise they leave every id of the batch selected.
C22_SelectAllTwice ==
  [][SelectAllTwice =>
       IF /\ Cardinality(last.sel) # Len(emailPreviews)
          /\ Cardinality(Range(emailPreviews)) = Len(emailPreviews)
         THEN selectedEmails' = {}
         ELSE selectedEmails' = Range(emailPreviews)]_vars

\* the second of two calls in a row emptied the selection of a batch of two
\* previews, which the first call had filled
C22_Witness ==
  /\ last.op = "selectAllEmails:again"
  /\ last.sel = {1, 2}
  /\ emailPreviews = <<1, 2>>
  /\ selectedEmails = {}

\* C23: as long as only toggles acted on the selection since it was emptied
\* (no batch replacement that kept it, no selectAllEmails), an id is selected
\* exactly when it was toggled an odd number of times; and a toggle changes
\* the membership of one id and of no other.
C23_ToggleStep ==
  last'.op = "toggleEmailSelection" =>
    Cardinality((selectedEmails \ selectedEmails') \cup
                (selectedEmails' \ selectedEmails)) = 1

C23_ToggleParity ==
  /\ [](toggled.valid => selectedEmails = toggled.odd)
  /\ [][C23_ToggleStep]_vars

\* with two previews shown, id 1 was toggled in and out again and id 2 was
\* toggled in
C23_Witness ==
  /\ last.op = "toggleEmailSelection"
  /\ toggled = Toggles(TRUE, {2})
  /\ last.sel = {1, 2}
  /\ selectedEmails = {2}
  /\ emailPreviews = <<1, 2>>

\* the error slot of the handler whose call settled
ErrorSlot == IF ChatSettled THEN chatError ELSE periodicError

\* C24: when a call of any of the four handlers settles with a failure
\* envelope, the error slot of the handler holds the text the agent supplied
\* (the error of the envelope or the message of the response) whenever there
\* is one, and a fixed generic text only when there is none.
C24_AgentMessagePreferred ==
  [][((ChatSettled' \/ PeriodicSettled') /\ AgentFailure(last'.resp)) =>
       IF Falsy(last'.resp.error) /\ Falsy(last'.resp.message)
         THEN ErrorSlot' \in {FailedToProcess, FailedToDelete, CleanupFailed,
                              TestRunFailed}
         ELSE /\ ~Falsy(ErrorSlot')
              /\ ErrorSlot' \in {last'.resp.error, last'.resp.message}]_vars

\* C25: the transcript is append-only: every step leaves the transcript of
\* before as a prefix of the transcript of after, so no message is removed,
\* edited or reordered, and the user message of a submit stays when the
\* submit fails.
C25_TranscriptAppendOnly ==
  [][/\ Len(chatMessages') >= Len(chatMessages)
     /\ SubSeq(chatMessages', 1, Len(chatMessages)) = chatMessages]_vars

\* the call of a submit was rejected: the user message is still there, with
\* the error message after it
C25_Witness ==
  /\ last.op = "submit"
  /\ last.resp.rejected
  /\ Len(chatMessages) = 2
  /\ chatMessages[1].role = "user"
  /\ chatMessages[1].content = last.req.input
  /\ chatMessages[2].content = NetworkError

\* the handlers whose gateway call settled or was made in the step
HandlerOps ==
  {"submit", "delete", "runNow", "testRun", "sendChatMessage:call",
   "deleteSelectedEmails:call", "runCleanupNow:call", "testRunCleanup:call"}

\* C26: the stored settings change only in a saveSettings step: a change of
\* the draft leaves them as they are, and so does every step of
\* sendChatMessage, deleteSelectedEmails, runCleanupNow and testRunCleanup.
C26_OnlySaveWritesSettings ==
  [][/\ lsSettings' # lsSettings => last'.op = "saveSettings"
     /\ last'.op = "setSettings" => UNCHANGED lsSettings
     /\ last'.op \in HandlerOps => UNCHANGED lsSettings]_vars

\* the draft was changed after a save and differs from the stored record,
\* with an entry of a handler in the log
C26_Witness ==
  /\ last.op = "setSettings"
  /\ lsSettings.kind = "object"
  /\ loadSettings(lsSettings) # settings
  /\ loadSettings(lsSettings).promotional = FALSE
  /\ settings.promotional = TRUE
  /\ activityLog # <<>>

\* C27: the ids of the entries of the log are pairwise distinct, also when
\* two appends read the same clock value.
C27_LogIdsDistinct ==
  \A i, j \in 1..Len(activityLog) :
    i # j => activityLog[i].id # activityLog[j].id

\* C28: the stored log is the in-memory log once the log is loaded, after
\* every append whose store write succeeded, and no step other than an
\* append changes either of them, whatever the interleaving of chat and
\* periodic calls.
C28_AppendStep ==
  IF nAppends' # nAppends
    THEN last'.stored => loadActivityLog(lsActivityLog') = activityLog'
    ELSE UNCHANGED <<activityLog, lsActivityLog>>

C28_StoredLogIsLog ==
  /\ loadActivityLog(lsActivityLog) = activityLog
  /\ [][C28_AppendStep]_vars

\* on a log loaded full, a chat call and a periodic call were in flight
\* together and both appended; store and memory hold the same LogCap entries
C28_Witness ==
  /\ nAppends = 2
  /\ last.stored
  /\ last.op = "submit"
  /\ last.req.log = Prefill(LogCap)
  /\ activityLog[1].seq = 2
  /\ Len(activityLog) = LogCap
  /\ lsActivityLog = Stored(activityLog)

\* C29: a deleteSelectedEmails that succeeds acts on the selection of the
\* moment it was invoked, whatever was toggled while its call was in
\* flight: the previews removed and the number in the label are those of
\* the ids sent, the previews selected during the flight stay, and the
\* selection is empty afterwards.
C29_DeleteUsesCapturedSelection ==
  [][DeleteSucceeded' =>
       /\ emailPreviews' = SelectSeq(emailPreviews, LAMBDA e : e \notin last'.req.sel)
       /\ \A id \in selectedEmails \ last'.req.sel :
            Count(emailPreviews', id) = Count(emailPreviews, id)
       /\ activityLog'[1].action =
            <<"Deleted ", ToString(Cardinality(last'.req.sel)), " selected emails">>
       /\ selectedEmails' = {}]_vars

\* the delete was invoked with preview 1 selected; while its call was in
\* flight preview 1 was toggled out and preview 2 in; preview 1 is removed,
\* preview 2 stays and the label counts 1
C29_Witness ==
  /\ DeleteSucceeded
  /\ last.req.sel = {1}
  /\ last.sel = {2}
  /\ emailPreviews = <<2>>
  /\ selectedEmails = {}
  /\ activityLog[1].action = <<"Deleted ", "1", " selected emails">>

====
